---- MODULE Spec2Model ----
(***************************************************************************)
(* CapsuleNetwork (capsule_network.py): the orchestrator of a capsule      *)
(* network.  The model covers the constructor, forward(), loss(),          *)
(* margin_loss(), reconstruction_loss() and reconstruct().                 *)
(*                                                                         *)
(* Numbers.  Capsule components and norms are fixed-point values in        *)
(* tenths (9 stands for 0.9); the capsule vectors are chosen so that       *)
(* their Euclidean norm is an exact number of tenths.  Loss values are     *)
(* exact rationals <<numerator, denominator>> in lowest terms, so          *)
(* floating-point rounding is not modelled.                                *)
(*                                                                         *)
(* Tensors.  A tensor is a sequence of rows; input[k][c] is the capsule    *)
(* vector of class c of sample k, target[k][c] the label entry,            *)
(* images[k][p] a pixel.  Shapes are the lengths of these sequences, and   *)
(* elementwise operations follow the broadcasting rule of the tensor       *)
(* library (sizes must be equal or one of them 1).                         *)
(***************************************************************************)
EXTENDS Integers, Sequences, FiniteSets, TLC

\* ----------------------------------------------------------------- bounds
\* the largest batch
MaxBatch == 2

\* the output capsules of a sample and the pixels of an image: the sizes of
\* the second dimension of input and of the flattened images
Classes == {1, 2}

NumOutput == Cardinality(Classes)

Pixels == {1}

NumPixels == Cardinality(Pixels)

\* capsule vectors (tenths), with norms 0, 0.1, 0.9 and 1.0
Vecs == {<<0, 0>>, <<1, 0>>, <<0, 9>>, <<6, 8>>}

PixelVals == {0, 1}

\* how v_mag.max(dim=1) picks among several capsules of maximal norm
TieRules == {"first", "last"}

VARIABLES net, ctor, op, args, outcome, result, masked, winners, calls, written, second

vars == <<net, ctor, op, args, outcome, result, masked, winners, calls, written, second>>

\* ------------------------------------------------------- exact arithmetic
Max(a, b) == IF a >= b THEN a ELSE b

Square(a) == a * a

\* exact division; a quotient that is not an integer stops the evaluation
Div(a, b) == IF a % b = 0 THEN a \div b ELSE "inexact"

\* x times the fraction q = <<numerator, denominator>>
Scaled(q, x) == Div(x * q[1], q[2])

RECURSIVE Factorial(_)
Factorial(k) == IF k <= 1 THEN 1 ELSE k * Factorial(k - 1)

\* A loss value v stands for the real number v / LossDen.  LossDen is a
\* multiple of every batch size, of the squared-norm unit, of loss_lambda's
\* and of rec_loss_weight's denominators, so every loss is an exact integer.
LossDen == 2000 * Factorial(MaxBatch + 1)

\* a squared norm difference (hundredths) as a loss value
OfSquare(x) == x * (LossDen \div 100)

\* a squared pixel difference (units) as a loss value
OfPixel(x) == x * LossDen

RECURSIVE SumTo(_, _)
SumTo(s, i) == IF i = 0 THEN 0 ELSE s[i] + SumTo(s, i - 1)

SeqSum(s) == SumTo(s, Len(s))

RECURSIVE SqrtFrom(_, _)
SqrtFrom(x, r) == IF r * r = x THEN r ELSE IF r * r > x THEN "inexact" ELSE SqrtFrom(x, r + 1)

\* torch.sqrt on the squared norms the model's vectors produce
Sqrt(x) == SqrtFrom(x, 0)

\* ------------------------------------------------------ tensor primitives
\* sizes a and b broadcast together
BroadcastOK(a, b) == a = b \/ a = 1 \/ b = 1

\* index into a dimension of size n of a broadcast operand
BIdx(i, n) == IF n = 1 THEN 1 ELSE i

\* the tensor whose entries are the values of f, computed once
Tensor(f) == f \o <<>>

\* (input**2).sum(dim=2) followed by torch.sqrt, for one capsule
Norm(v) == Sqrt(SeqSum(Tensor([d \in 1..Len(v) |-> v[d] * v[d]])))

\* v_mag: [batch_size, num_output]
VMag(input) == Tensor([k \in 1..Len(input) |-> Tensor([c \in 1..Len(input[k]) |-> Norm(input[k][c])])])

\* the outcome of one call: status, value, the winning indices and the masked
\* tensor built, the collaborator calls made and the tensors written in place
Outcome(status, value, idx, all_masked, made, inplace) ==
    [status |-> status, value |-> value, winners |-> idx, masked |-> all_masked,
     calls |-> made, written |-> inplace]

\* the outcome of a call that masks nothing, calls no collaborator and writes nothing
Plain(r) == Outcome(r.status, r.value, <<>>, <<>>, <<>>, {})

Ok(v) == [status |-> "ok", value |-> v]

Err(kind) == [status |-> "error", value |-> kind]

\* ------------------------------------------------------------ margin_loss
m_plus == 9

m_minus == 1

loss_lambda == <<1, 2>>

\* Eq.4 with the two max() terms exchanged
LcTerm_swapped(T_c, max_l, max_r) ==
    T_c * OfSquare(max_r) + Scaled(loss_lambda, (1 - T_c) * OfSquare(max_l))

\* L_c = T_c * max_l + loss_lambda * (1.0 - T_c) * max_r, one entry
LcTerm(T_c, max_l, max_r) ==
    T_c * OfSquare(max_l) + Scaled(loss_lambda, (1 - T_c) * OfSquare(max_r))

\* the reduction with size_average ignored
Reduce_alwaysSum(perSample, size_average) == SeqSum(perSample)

\* the reduction over the batch: mean() or sum()
Reduce(perSample, size_average) ==
    IF size_average
    THEN Div(SeqSum(perSample), Len(perSample))
    ELSE SeqSum(perSample)

\* max_l, max_r: [batch_size, num_output]
MaxL(v_mag) == Tensor([k \in 1..Len(v_mag) |->
                 Tensor([c \in 1..Len(v_mag[k]) |-> Square(Max(m_plus - v_mag[k][c], 0))])])

MaxR(v_mag) == Tensor([k \in 1..Len(v_mag) |->
                 Tensor([c \in 1..Len(v_mag[k]) |-> Square(Max(v_mag[k][c] - m_minus, 0))])])

\* L_c = T_c * max_l + loss_lambda * (1.0 - T_c) * max_r, broadcast, then L_c.sum(dim=1)
LcRows(T_c, max_l, max_r, rows, cols) ==
    Tensor([i \in 1..rows |->
        SeqSum(Tensor([j \in 1..cols |->
            LcTerm(T_c[BIdx(i, Len(T_c))][BIdx(j, Len(T_c[1]))],
                   max_l[BIdx(i, Len(max_l))][BIdx(j, Len(max_l[1]))],
                   max_r[BIdx(i, Len(max_r))][BIdx(j, Len(max_r[1]))])]))])

MarginLossOf(v_mag, target, size_average) ==
    IF ~(BroadcastOK(Len(v_mag), Len(target)) /\ BroadcastOK(Len(v_mag[1]), Len(target[1])))
    THEN Err("RuntimeError")
    ELSE Ok(Reduce(LcRows(target, MaxL(v_mag), MaxR(v_mag),
                          Max(Len(v_mag), Len(target)), Max(Len(v_mag[1]), Len(target[1]))),
                   size_average))

MarginLoss(input, target, size_average) == MarginLossOf(VMag(input), target, size_average)

\* ------------------------------------------------------------ collaborators
\* Conv1, PrimaryCaps and DigitCaps are opaque tensor transforms: the value
\* they return is the term <<name, argument>>.
Conv1(x) == <<"conv1", x>>

PrimaryCaps(h) == <<"primary_caps", h>>

DigitCaps(h) == <<"digit_caps", h>>

\* DigitCaps(routing_iters, gpu): the routing engine's constructor
DigitCapsInit(routing_iters, gpu) ==
    IF routing_iters <= 0
    THEN Err("ValueError")
    ELSE Ok([routing_iters |-> routing_iters, gpu |-> gpu])

\* The decoder maps each flattened masked row to an image of NumPixels pixels.
DecoderPixel(row, p) == (SeqSum(row) + p) % 2

Decoder(flat) == Tensor([k \in 1..Len(flat) |-> Tensor([p \in 1..NumPixels |-> DecoderPixel(flat[k], p)])])

\* one call of a collaborator, as recorded in the call trace
Call(callee, arg) == [callee |-> callee, arg |-> arg]

\* ------------------------------------------------------------- constructor
DefaultRoutingIters == 3

DefaultReconstruct == TRUE

DefaultGpu == 0

\* an optional argument is <<>> (not given) or <<value>>
Arg(a, default) == IF a = <<>> THEN default ELSE a[1]

NoNet == [status |-> "error"]

\* a constructor that does not pass routing_iters on to DigitCaps
CapsuleNetworkInit_dropsRoutingIters(a_routing_iters, a_reconstruct, a_gpu) ==
    LET reconstruct == Arg(a_reconstruct, DefaultReconstruct)
        gpu == Arg(a_gpu, DefaultGpu)
        digit_caps == DigitCapsInit(DefaultRoutingIters, gpu)
    IN  [status |-> "ok", gpu |-> gpu, has_reconstruction |-> reconstruct,
         digit_caps |-> digit_caps.value, decoder |-> reconstruct]

\* a constructor that builds the decoder unconditionally
CapsuleNetworkInit_alwaysDecoder(a_routing_iters, a_reconstruct, a_gpu) ==
    LET routing_iters == Arg(a_routing_iters, DefaultRoutingIters)
        reconstruct == Arg(a_reconstruct, DefaultReconstruct)
        gpu == Arg(a_gpu, DefaultGpu)
        digit_caps == DigitCapsInit(routing_iters, gpu)
    IN  IF digit_caps.status = "error"
        THEN NoNet
        ELSE [status |-> "ok", gpu |-> gpu, has_reconstruction |-> reconstruct,
              digit_caps |-> digit_caps.value, decoder |-> TRUE]

CapsuleNetworkInit(a_routing_iters, a_reconstruct, a_gpu) ==
    LET routing_iters == Arg(a_routing_iters, DefaultRoutingIters)
        reconstruct == Arg(a_reconstruct, DefaultReconstruct)
        gpu == Arg(a_gpu, DefaultGpu)
        digit_caps == DigitCapsInit(routing_iters, gpu)
    IN  IF digit_caps.status = "error"
        THEN NoNet
        ELSE [status |-> "ok",
              gpu |-> gpu,
              has_reconstruction |-> reconstruct,
              digit_caps |-> digit_caps.value,
              decoder |-> reconstruct]

\* forward() that hands x to primary_caps, the convolution's output dropped
ForwardRun_skipsConv(x) ==
    LET h1 == Conv1(x)
        h2 == PrimaryCaps(x)
        h3 == DigitCaps(h2)
    IN  Outcome("ok", h3, <<>>, <<>>,
                <<Call("conv1", x), Call("primary_caps", x), Call("digit_caps", h2)>>, {})

\* ----------------------------------------------------------------- forward
ForwardRun(x) ==
    LET h1 == Conv1(x)
        h2 == PrimaryCaps(h1)
        h3 == DigitCaps(h2)
    IN  Outcome("ok", h3, <<>>, <<>>,
                <<Call("conv1", x), Call("primary_caps", h1), Call("digit_caps", h2)>>, {})

\* ------------------------------------------------------------- reconstruct
\* the indices of maximal norm of one sample
ArgMaxSet(row) == {c \in 1..Len(row) : \A c2 \in 1..Len(row) : row[c2] <= row[c]}

\* the index the library returns among them
Pick(S, tie) ==
    IF tie = "first"
    THEN CHOOSE c \in S : \A d \in S : c <= d
    ELSE CHOOSE c \in S : \A d \in S : c >= d

\* _, v_max_index = v_mag.max(dim=1)
VMaxIndex(v_mag, tie) == Tensor([k \in 1..Len(v_mag) |-> Pick(ArgMaxSet(v_mag[k]), tie)])

ZeroVec(v) == Tensor([d \in 1..Len(v) |-> 0])

\* torch.zeros(input_batch.size())
ZerosLike(input_batch) == Tensor([c \in 1..Len(input_batch) |-> ZeroVec(input_batch[c])])

\* reconstruct() with the zeroing lost: the whole sample is copied
MaskSample_copiesAll(input_batch, idx) == input_batch

\* batch_masked[v_max_index[batch_idx]] = input_batch[v_max_index[batch_idx]]
MaskSample(input_batch, idx) == [ZerosLike(input_batch) EXCEPT ![idx] = input_batch[idx]]

\* the masking loop indexing v_max_index with 0 instead of batch_idx
MaskAll_firstWinner(input, v_max_index) ==
    Tensor([batch_idx \in 1..Len(input) |-> MaskSample(input[batch_idx], v_max_index[1])])

\* the loop over the batch and torch.stack(all_masked, dim=0)
MaskAll(input, v_max_index) ==
    Tensor([batch_idx \in 1..Len(input) |-> MaskSample(input[batch_idx], v_max_index[batch_idx])])

RECURSIVE Concat(_)
Concat(rows) == IF rows = <<>> THEN <<>> ELSE rows[1] \o Concat(Tail(rows))

\* masked.view(batch_size, -1)
FlattenRows(t) == Tensor([k \in 1..Len(t) |-> Concat(t[k])])

\* reconstructed = self.decoder(masked)
Decode(n, idx, all_masked, flat) ==
    IF ~n.decoder
    THEN Outcome("error", "AttributeError", idx, all_masked, <<>>, {"batch_masked"})
    ELSE Outcome("ok", Decoder(flat), idx, all_masked, <<Call("decoder", flat)>>,
                 {"batch_masked"})

ReconstructMasked(n, idx, all_masked) == Decode(n, idx, all_masked, FlattenRows(all_masked))

ReconstructWinners(n, input, v_max_index) ==
    ReconstructMasked(n, v_max_index, MaskAll(input, v_max_index))

\* reconstruct() without its assertion
ReconstructRun_noAssert(n, input, tie) ==
    ReconstructWinners(n, input, VMaxIndex(VMag(input), tie))

ReconstructRun(n, input, tie) ==
    IF ~n.has_reconstruction
    THEN Outcome("error", "AssertionError", <<>>, <<>>, <<>>, {})
    ELSE ReconstructWinners(n, input, VMaxIndex(VMag(input), tie))

\* ----------------------------------------------------- reconstruction_loss
rec_loss_weight == <<5, 10000>>

SumSq(row) == SeqSum(Tensor([p \in 1..Len(row) |-> Square(row[p])]))

\* reconstructed - images, broadcast over the batch dimension
Diff(reconstructed, images, rows) ==
    Tensor([i \in 1..rows |-> Tensor([p \in 1..NumPixels |->
        reconstructed[BIdx(i, Len(reconstructed))][p] - images[BIdx(i, Len(images))][p]])])

\* entries (i-1)*width+1 .. i*width of a flat sequence
Chunk(s, i, width) == SubSeq(s, (i - 1) * width + 1, i * width)

\* .view(batch_size, -1), error**2 and torch.sum(error, dim=1)
ErrorRows(flat, batch_size) ==
    Tensor([i \in 1..batch_size |-> OfPixel(SumSq(Chunk(flat, i, Len(flat) \div batch_size)))])

ReconstructionLossOf(rec, images, size_average) ==
    IF rec.status = "error"
    THEN rec
    ELSE IF ~BroadcastOK(Len(rec.value), Len(images))
         THEN [rec EXCEPT !.status = "error", !.value = "RuntimeError"]
         ELSE [rec EXCEPT
                 !.value = Scaled(rec_loss_weight,
                                  Reduce(ErrorRows(Concat(Diff(rec.value, images,
                                                               Max(Len(rec.value), Len(images)))),
                                                   Len(images)),
                                         size_average)),
                 !.written = @ \cup {"error"}]

ReconstructionLossRun(n, images, input, size_average, tie) ==
    ReconstructionLossOf(ReconstructRun(n, input, tie), images, size_average)

\* -------------------------------------------------------------------- loss
\* Variable(torch.zeros(1))
Zeros1 == 0 * LossDen

\* loss = margin_loss + reconstruction_loss; return loss, margin_loss, reconstruction_loss
Total(margin_loss, r) ==
    IF r.status = "error"
    THEN r
    ELSE [r EXCEPT !.value = <<margin_loss + r.value, margin_loss, r.value>>]

\* loss() that asks for the reconstruction loss whatever the flag says
LossOf_alwaysReconstructs(n, margin_loss, images, input, size_average, tie) ==
    IF margin_loss.status = "error"
    THEN Plain(margin_loss)
    ELSE Total(margin_loss.value, ReconstructionLossRun(n, images, input, size_average, tie))

LossOf(n, margin_loss, images, input, size_average, tie) ==
    IF margin_loss.status = "error"
    THEN Plain(margin_loss)
    ELSE IF n.has_reconstruction
         THEN Total(margin_loss.value, ReconstructionLossRun(n, images, input, size_average, tie))
         ELSE Total(margin_loss.value, Plain(Ok(Zeros1)))

LossRun(n, images, input, target, size_average, tie) ==
    LossOf(n, MarginLoss(input, target, size_average), images, input, size_average, tie)

\* ------------------------------------------------------------ input spaces
Batches == 1..MaxBatch

\* capsule tensors [batch, NumOutput, 2] for margin_loss() and reconstruct()
Samples == [1..NumOutput -> Vecs]

Inputs == UNION {[1..b -> Samples] : b \in Batches}

\* capsule tensors for margin_loss(): norms at 0.1, at 0.9 and above 0.9
MarginVecs == Vecs \ {<<0, 0>>}

MarginInputs == UNION {[1..b -> [1..NumOutput -> MarginVecs]] : b \in Batches}

\* capsule tensors for the calls that also take images: each sample has a
\* single longest capsule or two capsules of the same maximal norm
LossSamples == {<< <<6, 8>>, <<1, 0>> >>, << <<0, 9>>, <<0, 9>> >>}

LossInputs == UNION {[1..b -> LossSamples] : b \in Batches}

OneHot(tc) == {[c \in 1..tc |-> IF c = h THEN 1 ELSE 0] : h \in 1..tc}

\* targets of shape [tb, tc]: the declared [batch, NumOutput] and the
\* undeclared [*, 1] and [1, NumOutput + 1]
TargetShapes == {<<tb, tc>> : tb \in Batches, tc \in {1, NumOutput}} \cup {<<1, NumOutput + 1>>}

Targets == UNION {[1..sh[1] -> OneHot(sh[2])] : sh \in TargetShapes}

Images == UNION {[1..b -> [1..NumPixels -> PixelVals]] : b \in Batches}

\* constructor calls: <<routing_iters, reconstruct, gpu>>, <<>> = not given
CtorArgs == {<< <<>>, <<>>, <<>> >>, << <<1>>, <<FALSE>>, <<-1>> >>,
             << <<0>>, <<>>, <<>> >>, << <<-1>>, <<FALSE>>, <<>> >>}

NoArgs == [images |-> <<>>, input |-> <<>>, target |-> <<>>, size_average |-> <<>>]

\* ------------------------------------------------------------ state machine
Init ==
    /\ ctor \in CtorArgs
    /\ net = CapsuleNetworkInit(ctor[1], ctor[2], ctor[3])
    /\ op = "idle"
    /\ args = NoArgs
    /\ outcome = net.status
    /\ result = <<>>
    /\ masked = <<>>
    /\ winners = <<>>
    /\ calls = <<>>
    /\ written = {}
    /\ second = <<>>

\* no call is in progress: the network was just built, or the last call returned
Idle == op = "idle"

\* the call o(a) ended with outcome r
Finish(o, a, r) ==
    /\ op' = o
    /\ args' = a
    /\ outcome' = r.status
    /\ result' = r.value
    /\ calls' = r.calls
    /\ masked' = r.masked
    /\ winners' = r.winners
    /\ written' = r.written
    /\ UNCHANGED <<net, ctor, second>>

Forward ==
    /\ net.status = "ok"
    /\ Idle
    /\ \E x \in Images :
         Finish("forward", [NoArgs EXCEPT !.images = x], ForwardRun(x))

MarginLossCall ==
    /\ net.status = "ok"
    /\ Idle
    /\ \E input \in MarginInputs, target \in Targets, size_average \in BOOLEAN :
         Finish("margin_loss",
                [NoArgs EXCEPT !.input = input, !.target = target, !.size_average = size_average],
                Plain(MarginLoss(input, target, size_average)))

Reconstruct ==
    /\ net.status = "ok"
    /\ Idle
    /\ \E input \in Inputs, tie \in TieRules :
         Finish("reconstruct", [NoArgs EXCEPT !.input = input], ReconstructRun(net, input, tie))

ReconstructionLoss ==
    /\ net.status = "ok"
    /\ Idle
    /\ \E images \in Images, input \in LossInputs, size_average \in BOOLEAN, tie \in TieRules :
         Finish("reconstruction_loss",
                [NoArgs EXCEPT !.images = images, !.input = input, !.size_average = size_average],
                ReconstructionLossRun(net, images, input, size_average, tie))

Loss ==
    /\ net.status = "ok"
    /\ Idle
    /\ \E images \in Images, input \in LossInputs, target \in Targets,
          size_average \in BOOLEAN, tie \in TieRules :
         Finish("loss",
                [images |-> images, input |-> input, target |-> target,
                 size_average |-> size_average],
                LossRun(net, images, input, target, size_average, tie))

\* the caller takes the outcome of the last call; the network is ready for the next one
Return ==
    /\ ~Idle
    /\ op' = "idle"
    /\ args' = NoArgs
    /\ outcome' = "ok"
    /\ result' = <<>>
    /\ calls' = <<>>
    /\ masked' = <<>>
    /\ winners' = <<>>
    /\ written' = {}
    /\ second' = <<>>
    /\ UNCHANGED <<net, ctor>>

Next == Forward \/ MarginLossCall \/ Reconstruct \/ ReconstructionLoss \/ Loss \/ Return

Spec == Init /\ [][Next]_vars

\* ------------------------------------------------- two runs side by side
\* L_c after L_c.sum(dim=1): the margin-loss term of every sample
MarginTerms(input, target) ==
    LcRows(target, MaxL(VMag(input)), MaxR(VMag(input)), Len(input), Len(input[1]))

\* what one batch goes through: margin_loss() and reconstruct()
RunBoth(n, input, target, size_average, tie) ==
    [input |-> input,
     target |-> target,
     L_c |-> MarginTerms(input, target),
     margin |-> MarginLoss(input, target, size_average).value,
     rec |-> ReconstructRun(n, input, tie)]

\* the batches (and the targets) a and b agree on sample k
AgreeAt(a, b, k) == Len(a) = Len(b) /\ a[k] = b[k]

Perms(m) == {f \in [1..m -> 1..m] : \A i, j \in 1..m : f[i] = f[j] => i = j}

\* row i of the permuted batch is row perm[i] of t
Permuted(t, perm) == Tensor([i \in 1..Len(t) |-> t[perm[i]]])

PairTargets(b) == [1..b -> OneHot(NumOutput)]

\* two calls on batches that agree on sample k and differ elsewhere
ReplaceOthers ==
    /\ net.status = "ok" /\ net.has_reconstruction
    /\ Idle
    /\ \E b \in Batches :
       \E k \in 1..b, a1 \in [1..b -> LossSamples], a2 \in [1..b -> LossSamples],
          t1 \in PairTargets(b), t2 \in PairTargets(b),
          size_average \in BOOLEAN, tie \in TieRules :
         /\ AgreeAt(a1, a2, k)
         /\ AgreeAt(t1, t2, k)
         /\ op' = "runs"
         /\ second' = [rel |-> "agree", k |-> k, perm |-> <<>>,
                       first |-> RunBoth(net, a1, t1, size_average, tie),
                       other |-> RunBoth(net, a2, t2, size_average, tie)]
         /\ UNCHANGED <<net, ctor, args, outcome, result, masked, winners, calls, written>>

\* two calls on a batch and on a permutation of it
PermuteBatch ==
    /\ net.status = "ok" /\ net.has_reconstruction
    /\ Idle
    /\ \E b \in Batches :
       \E a1 \in [1..b -> LossSamples], t1 \in PairTargets(b), perm \in Perms(b),
          size_average \in BOOLEAN, tie \in TieRules :
         /\ op' = "runs"
         /\ second' = [rel |-> "permuted", k |-> 0, perm |-> perm,
                       first |-> RunBoth(net, a1, t1, size_average, tie),
                       other |-> RunBoth(net, Permuted(a1, perm), Permuted(t1, perm),
                                         size_average, tie)]
         /\ UNCHANGED <<net, ctor, args, outcome, result, masked, winners, calls, written>>

NextIndep == ReplaceOthers \/ PermuteBatch \/ Return

SpecIndep == Init /\ [][NextIndep]_vars

\* ------------------------------------------------------------------ claims
CallerTensors == {"images", "input", "target"}

LossOps == {"margin_loss", "reconstruction_loss", "loss"}

ZeroCapsule(v) == \A d \in 1..Len(v) : v[d] = 0

\* the positions of the decoder's calls in the trace of the last call
DecoderCalls == {i \in 1..Len(calls) : calls[i].callee = "decoder"}

\* the last call got tensors of the declared shapes: target [batch, num_output]
\* and images [batch, ...] for an input of shape [batch, num_output, dim]
ShapesDeclared ==
    /\ op \in {"margin_loss", "loss"} =>
         /\ Len(args.target) = Len(args.input)
         /\ \A k \in 1..Len(args.target) : Len(args.target[k]) = Len(args.input[1])
    /\ op \in {"reconstruction_loss", "loss"} => Len(args.images) = Len(args.input)

\* C1: whenever reconstruct() hands a masked tensor to the decoder, every
\* sample k of it has the capsule at its winning index w_k, an index of
\* maximal norm, equal to input[k][w_k], and all its other num_output - 1
\* capsules zero; ties and all-zero samples included.
C1_MaskKeepsOnlyWinner ==
    DecoderCalls # {} =>
        /\ Len(masked) = Len(args.input)
        /\ \A i \in DecoderCalls :
             calls[i].arg = [k \in 1..Len(masked) |-> Concat(masked[k])]
        /\ \A k \in 1..Len(args.input) :
             /\ Len(masked[k]) = Len(args.input[k])
             /\ winners[k] \in 1..Len(args.input[k])
             /\ \A c \in 1..Len(args.input[k]) :
                  SumSq(args.input[k][c]) <= SumSq(args.input[k][winners[k]])
             /\ masked[k][winners[k]] = args.input[k][winners[k]]
             /\ \A c \in 1..Len(args.input[k]) : c # winners[k] => ZeroCapsule(masked[k][c])
             /\ Cardinality({c \in 1..Len(args.input[k]) :
                               c # winners[k] /\ ZeroCapsule(masked[k][c])})
                  = Len(args.input[k]) - 1

\* a reconstruct() call that returned, on a batch with an all-zero sample
\* and a sample whose two longest capsules tie
C1_Witness ==
    /\ op = "reconstruct" /\ outcome = "ok"
    /\ Len(args.input) = 2
    /\ \E k \in 1..2 : \A c \in 1..Len(args.input[k]) : ZeroCapsule(args.input[k][c])
    /\ \E k \in 1..2 : \E c, d \in 1..Len(args.input[k]) :
         /\ c # d
         /\ SumSq(args.input[k][c]) = SumSq(args.input[k][d])
         /\ SumSq(args.input[k][c]) > 0
         /\ winners[k] \in {c, d}

\* C2: on a network built with reconstruct=False, reconstruct() and
\* reconstruction_loss() end in the assertion's error, with no mask built
\* and no decoder call made.
C2_DisabledReconstructionFails ==
    (op \in {"reconstruct", "reconstruction_loss"} /\ ~net.has_reconstruction) =>
        /\ outcome = "error"
        /\ masked = <<>>
        /\ winners = <<>>
        /\ calls = <<>>
        /\ result = "AssertionError"

C2_Witness ==
    /\ op = "reconstruction_loss"
    /\ ~net.has_reconstruction
    /\ outcome = "error"
    /\ Len(args.input) = 2

\* C3: a loss() call that returns gives (total, margin, reconstruction) with
\* total = margin + reconstruction; with reconstruction disabled the third
\* component is zero, no mask is built, the decoder is not called, and the
\* call never ends in the assertion's error.
C3_LossIsSumAndSkipsDisabledReconstruction ==
    op = "loss" =>
        /\ outcome = "ok" => result[1] = result[2] + result[3]
        /\ ~net.has_reconstruction =>
             /\ calls = <<>>
             /\ masked = <<>>
             /\ outcome = "ok" => result[3] = 0
             /\ outcome = "error" => result # "AssertionError"
             /\ ShapesDeclared => outcome = "ok"

C3_Witness ==
    /\ op = "loss" /\ outcome = "ok"
    /\ ~net.has_reconstruction
    /\ result[2] > 0
    /\ result[1] = result[2]

\* the target rows are one-hot
OneHotTarget ==
    \A k \in 1..Len(args.target) :
        /\ \A c \in 1..Len(args.target[k]) : args.target[k][c] \in {0, 1}
        /\ Cardinality({c \in 1..Len(args.target[k]) : args.target[k][c] = 1}) = 1

\* every target capsule has norm >= 0.9, every other capsule norm <= 0.1
MarginsMet ==
    \A k \in 1..Len(args.input) : \A c \in 1..Len(args.input[k]) :
        IF args.target[k][c] = 1
        THEN SumSq(args.input[k][c]) >= 9 * 9
        ELSE SumSq(args.input[k][c]) <= 1 * 1

Pos(x) == IF x > 0 THEN x ELSE 0

\* T_c * max(0, 0.9 - norm)^2 + 0.5 * (1 - T_c) * max(0, norm - 0.1)^2 of
\* one capsule, as a loss value (norms in tenths)
EquationFour(T_c, norm) ==
    (2 * T_c * Pos(9 - norm) * Pos(9 - norm) + (1 - T_c) * Pos(norm - 1) * Pos(norm - 1))
        * (LossDen \div 200)

RECURSIVE SumOver(_, _)
SumOver(S, f) ==
    IF S = {} THEN 0 ELSE LET x == CHOOSE y \in S : TRUE IN f[x] + SumOver(S \ {x}, f)

\* C4: margin_loss() is 0 under both reductions when the target is one-hot,
\* every target capsule has norm >= 0.9 and every other norm <= 0.1; with
\* sum reduction it is the sum over samples and classes of
\* T_c * max(0, 0.9 - norm)^2 + 0.5 * (1 - T_c) * max(0, norm - 0.1)^2.
C4_MarginLossZeroInsideMargins ==
    (op = "margin_loss" /\ outcome = "ok" /\ ShapesDeclared /\ OneHotTarget) =>
        /\ MarginsMet => result = 0
        /\ ~args.size_average =>
             result = SumOver({<<k, c>> : k \in 1..Len(args.input), c \in 1..Len(args.input[1])},
                              [kc \in {<<k, c>> : k \in 1..Len(args.input),
                                                  c \in 1..Len(args.input[1])} |->
                                 EquationFour(args.target[kc[1]][kc[2]],
                                              Norm(args.input[kc[1]][kc[2]]))])

\* a mean-reduced margin loss of 0 with norms exactly on both margins
C4_Witness ==
    /\ op = "margin_loss" /\ outcome = "ok" /\ ShapesDeclared /\ OneHotTarget /\ MarginsMet
    /\ args.size_average
    /\ Len(args.input) = 2
    /\ \E k \in 1..2 : \E c \in 1..Len(args.input[k]) :
         args.target[k][c] = 1 /\ SumSq(args.input[k][c]) = 9 * 9
    /\ \E k \in 1..2 : \E c \in 1..Len(args.input[k]) :
         args.target[k][c] = 0 /\ SumSq(args.input[k][c]) = 1 * 1
    /\ result = 0

\* the components (margin, reconstruction) of the last call's loss under
\* sum reduction, with the winners the call drew
SumMargin == MarginLoss(args.input, args.target, FALSE).value

SumReconstruction ==
    IF net.has_reconstruction
    THEN ReconstructionLossOf(ReconstructWinners(net, args.input, winners), args.images,
                              FALSE).value
    ELSE 0

\* C5: with the declared shapes, every loss computed with mean reduction,
\* times the batch size, is the same loss computed with sum reduction:
\* margin_loss(), reconstruction_loss() and the three components of loss().
C5_MeanIsSumOverBatch ==
    (op \in LossOps /\ outcome = "ok" /\ ShapesDeclared /\ args.size_average) =>
        CASE op = "margin_loss" -> result * Len(args.input) = SumMargin
          [] op = "reconstruction_loss" -> result * Len(args.input) = SumReconstruction
          [] op = "loss" ->
                /\ result[2] * Len(args.input) = SumMargin
                /\ result[3] * Len(args.input) = SumReconstruction
                /\ result[1] * Len(args.input) = SumMargin + SumReconstruction

C5_Witness ==
    /\ op = "loss" /\ outcome = "ok" /\ ShapesDeclared
    /\ args.size_average
    /\ net.has_reconstruction
    /\ Len(args.input) = 2
    /\ result[2] > 0 /\ result[3] > 0
    /\ result[1] * 2 = SumMargin + SumReconstruction

C7_ShapeMismatchIsAnError ==
    (op \in LossOps /\ ~ShapesDeclared) => outcome = "error"

\* C8: forward(x) calls conv1(x), primary_caps on its output and digit_caps
\* on that output, once each and in this order, returns digit_caps' output
\* and never calls the decoder; the decoder is called only on the
\* reconstruction path, once, on the fully built masked tensor.
C8_ForwardPipelineAndSingleDecoderCall ==
    /\ op = "forward" =>
         /\ outcome = "ok"
         /\ Len(calls) = 3
         /\ calls[1] = [callee |-> "conv1", arg |-> args.images]
         /\ calls[2] = [callee |-> "primary_caps", arg |-> <<"conv1", args.images>>]
         /\ calls[3] = [callee |-> "digit_caps",
                        arg |-> <<"primary_caps", <<"conv1", args.images>> >>]
         /\ result = <<"digit_caps", <<"primary_caps", <<"conv1", args.images>> >> >>
    /\ DecoderCalls # {} =>
         /\ op \in {"reconstruct", "reconstruction_loss", "loss"}
         /\ net.has_reconstruction
         /\ Len(calls) = 1
         /\ Len(masked) = Len(args.input)
         /\ calls[1].arg = [k \in 1..Len(masked) |-> Concat(masked[k])]
    /\ (op = "reconstruct" /\ outcome = "ok") => Cardinality(DecoderCalls) = 1
    /\ op \in LossOps => Cardinality(DecoderCalls) <= 1

C8_Witness ==
    /\ op = "forward" /\ outcome = "ok"
    /\ Len(args.images) = 2
    /\ Len(calls) = 3
    /\ calls[3].callee = "digit_caps"

\* C9: two batches that agree on sample k give sample k the same margin-loss
\* term, the same winning index and the same masked capsules; permuting a
\* batch permutes the masked rows alike and keeps the reduced margin loss.
C9_SamplesIndependent ==
    second # <<>> =>
        /\ second.rel = "agree" =>
             /\ second.first.L_c[second.k] = second.other.L_c[second.k]
             /\ second.first.rec.winners[second.k] = second.other.rec.winners[second.k]
             /\ second.first.rec.masked[second.k] = second.other.rec.masked[second.k]
        /\ second.rel = "permuted" =>
             /\ \A i \in 1..Len(second.perm) :
                  /\ second.other.rec.masked[i] = second.first.rec.masked[second.perm[i]]
                  /\ second.other.rec.winners[i] = second.first.rec.winners[second.perm[i]]
             /\ second.other.margin = second.first.margin

\* two batches of two samples that agree on one sample only, with a
\* different winner in the other sample
C9_Witness ==
    /\ second # <<>>
    /\ second.rel = "agree"
    /\ Len(second.first.input) = 2
    /\ second.first.input # second.other.input
    /\ second.first.target # second.other.target
    /\ second.first.rec.winners # second.other.rec.winners
    /\ second.first.margin # second.other.margin

\* C10: at every point after construction the network has the
\* configuration its constructor was given, a decoder exactly when
\* reconstruction is enabled, and no call has written to the caller's
\* images, input or target.
C10_ConfigurationFrame ==
    net.status = "ok" =>
        /\ net.has_reconstruction = (IF ctor[2] = <<>> THEN TRUE ELSE ctor[2][1])
        /\ net.gpu = (IF ctor[3] = <<>> THEN 0 ELSE ctor[3][1])
        /\ net.decoder <=> net.has_reconstruction
        /\ written \cap CallerTensors = {}

\* a call that wrote its own tensors in place, the configuration intact
C10_Witness ==
    /\ net.status = "ok"
    /\ net.has_reconstruction /\ net.decoder /\ net.gpu = 0
    /\ op = "reconstruction_loss" /\ outcome = "ok"
    /\ written = {"batch_masked", "error"}

====
